---- MODULE Spec2Model ----
(***************************************************************************)
(* A model of src/app.py, the Streamlit dashboard script "Black Hole       *)
(* Accretion Intelligence System".                                         *)
(*                                                                         *)
(* Streamlit runs the script top to bottom once per user interaction.  A   *)
(* run is modelled as a sequence of steps (pc): the upload gate, the load  *)
(* and numeric coercion, the three classifications, the sidebar filters    *)
(* and the boolean-mask filter, the KPI tiles, and the first chart row.    *)
(* The first chart row reads the name BG, which the script never binds, so *)
(* every run on an uploaded file ends there with a NameError; the blocks   *)
(* after it (lines 146-232) are never executed.  What the gauge block      *)
(* (lines 215-217) computes is given as the state functions jet_mean,      *)
(* jet_90 and score over the current df and filtered.                      *)
(*                                                                         *)
(* Numbers are exact rationals [k |-> "num", n, d]; a blank cell is the    *)
(* float NaN; a text cell is either text that parses as a number ("str")   *)
(* or text that does not ("junk").  Binary floating-point rounding is not  *)
(* modelled.  Files with no data row are not modelled, and a session       *)
(* uploads one file: the uploader is not used again after the first file.  *)
(***************************************************************************)
EXTENDS Integers, Sequences, FiniteSets, TLC

VARIABLES
    uploaded,   \* the file held by st.file_uploader: NoFile or a sequence of rows
    df,         \* the DataFrame of the current run, a sequence of rows
    rendered,   \* TRUE once the sidebar multiselects exist in the session
    mass_f,     \* value of the "Mass Category" multiselect
    spin_f,     \* value of the "Spin Category" multiselect
    edd_f,      \* value of the "Accretion Regime" multiselect
    filtered,   \* the filtered DataFrame of the current run
    kpi,        \* the four KPI tiles of the current run
    pc,         \* position of the current run in the script
    err,        \* the exception that ended the current run, or "None"
    at_load     \* history: the full set and its references after the first classification

vars == <<uploaded, df, rendered, mass_f, spin_f, edd_f, filtered, kpi, pc, err, at_load>>

\* Largest number of data rows in an uploaded file.
MaxRows == 3

-----------------------------------------------------------------------------
(* Values: Python floats and strings as they occur in DataFrame cells.     *)

RECURSIVE GCD(_, _)
GCD(a, b) == IF b = 0 THEN a ELSE GCD(b, a % b)

Rat(n, d) == LET g == GCD(n, d) IN [k |-> "num", n |-> n \div g, d |-> d \div g]

Num(n) == Rat(n, 1)

NaN == [k |-> "nan", n |-> 0, d |-> 1]

\* A text cell whose characters parse as the number n/d, e.g. "2".
Str(n, d) == [k |-> "str", n |-> Rat(n, d).n, d |-> Rat(n, d).d]

\* A text cell that does not parse as a number, e.g. "n/a".
Junk == [k |-> "junk", n |-> 0, d |-> 1]

IsNum(x) == x.k = "num"

IsNaN(x) == x.k = "nan"

IsText(x) == x.k \in {"str", "junk"}

\* Python's a < b on floats: False whenever either side is NaN.
Lt(a, b) == IsNum(a) /\ IsNum(b) /\ a.n * b.d < b.n * a.d

\* Python's a <= b on floats.
Le(a, b) == IsNum(a) /\ IsNum(b) /\ a.n * b.d <= b.n * a.d

\* Float arithmetic: NaN propagates.
Add(a, b) == IF IsNum(a) /\ IsNum(b) THEN Rat(a.n * b.d + b.n * a.d, a.d * b.d) ELSE NaN

Mul(a, b) == IF IsNum(a) /\ IsNum(b) THEN Rat(a.n * b.n, a.d * b.d) ELSE NaN

\* a / b for b # 0 (NaN / x and x / NaN are NaN).
Div(a, b) == IF IsNum(a) /\ IsNum(b) /\ b.n # 0 THEN Rat(a.n * b.d, a.d * b.n) ELSE NaN

\* Python's truth value of a float: only 0.0 is false; NaN is true.
Truthy(x) == ~(IsNum(x) /\ x.n = 0)

\* Python's built-in min(a, b): b if b < a else a.
PyMin(a, b) == IF Lt(b, a) THEN b ELSE a

-----------------------------------------------------------------------------
(* pandas Series reductions over a column (a sequence of cells).           *)

Column(frame, c) == [i \in 1..Len(frame) |-> frame[i][c]]

\* Indices of the non-missing values (pandas reductions skip NaN).
Valid(col) == {i \in 1..Len(col) : IsNum(col[i])}

\* The k-th smallest (k counted from 0) of the non-missing values of col.
Kth(col, k) ==
    LET I == Valid(col)
        i == CHOOSE i \in I :
                /\ Cardinality({j \in I : Lt(col[j], col[i])}) <= k
                /\ k < Cardinality({j \in I : Le(col[j], col[i])})
    IN  col[i]

\* Series.quantile(q / 100), interpolation="linear": with the n non-missing
\* values sorted, position (n - 1) * q / 100, interpolated between its
\* neighbours; NaN when there is no value.
Quantile(col, q) ==
    LET n == Cardinality(Valid(col))
        pos == (n - 1) * q
        lo == pos \div 100
        hi == IF lo + 1 < n THEN lo + 1 ELSE lo
        a == Kth(col, lo)
        b == Kth(col, hi)
        \* b - a, not negative
        gap == Rat(b.n * a.d - a.n * b.d, a.d * b.d)
    IN  IF n = 0 THEN NaN ELSE Add(a, Mul(gap, Rat(pos % 100, 100)))

RECURSIVE SumOver(_, _)
SumOver(col, I) ==
    IF I = {} THEN Num(0)
    ELSE LET i == CHOOSE i \in I : TRUE IN Add(col[i], SumOver(col, I \ {i}))

\* Series.mean(): the mean of the non-missing values, NaN when there is none.
Mean(col) ==
    LET I == Valid(col)
    IN  IF I = {} THEN NaN ELSE Div(SumOver(col, I), Num(Cardinality(I)))

\* Series.unique() as the set of its values.
Unique(col) == {col[i] : i \in 1..Len(col)}

-----------------------------------------------------------------------------
(* String formatting of the KPI tiles.                                     *)

RECURSIVE Pow10(_)
Pow10(p) == IF p = 0 THEN 1 ELSE 10 * Pow10(p - 1)

\* The integer nearest to n / d, ties to the even one.
RoundDiv(n, d) ==
    LET q == n \div d
        r == n % d
    IN  IF 2 * r < d THEN q
        ELSE IF 2 * r > d THEN q + 1
        ELSE IF q % 2 = 0 THEN q ELSE q + 1

RECURSIVE Digits(_, _)
\* m written with at least w digits.
Digits(m, w) == IF w <= 1 /\ m < 10 THEN ToString(m)
                ELSE Digits(m \div 10, w - 1) \o ToString(m % 10)

\* f"{x:.<p>f}" for x >= 0; "nan" for NaN.
FormatFixed(x, p) ==
    IF IsNaN(x) THEN "nan"
    ELSE LET m == RoundDiv(x.n * Pow10(p), x.d)
         IN  Digits(m \div Pow10(p), 1) \o "." \o Digits(m % Pow10(p), p)

RECURSIVE Exp10(_, _)
\* The decimal exponent e of n / d > 0: 10^e <= n / d < 10^(e + 1).
Exp10(n, d) == IF n >= 10 * d THEN Exp10(n, 10 * d) + 1
               ELSE IF n < d THEN Exp10(10 * n, d) - 1
               ELSE 0

\* f"{x:.2e}" for x >= 0; "nan" for NaN.
FormatSci(x) ==
    IF IsNaN(x) THEN "nan"
    ELSE IF x.n = 0 THEN "0.00e+00"
    ELSE LET e0 == Exp10(x.n, x.d)
             m0 == IF e0 >= 0 THEN RoundDiv(x.n * 100, x.d * Pow10(e0))
                   ELSE RoundDiv(x.n * 100 * Pow10(-e0), x.d)
             m == IF m0 = 1000 THEN 100 ELSE m0
             e == IF m0 = 1000 THEN e0 + 1 ELSE e0
         IN  Digits(m \div 100, 1) \o "." \o Digits(m % 100, 2) \o "e"
             \o (IF e < 0 THEN "-" ELSE "+") \o Digits(IF e < 0 THEN -e ELSE e, 2)

-----------------------------------------------------------------------------
(* The uploaded spreadsheet.                                               *)

NoFile == <<>>

Row(mass, spin, edd, jet, lum) ==
    [BlackHole_Mass_SolarMass |-> mass, Spin_Factor |-> spin, Eddington_Ratio |-> edd,
     Jet_Energy_erg |-> jet, Xray_Luminosity_erg_s |-> lum]

\* The rows a file is made of.  Spin and Eddington ratio in hundredths.
RowPool ==
    { Row(Num(1), Rat(30, 100), Rat(5, 100),   Num(0),  Num(2)),
      Row(Num(2), Rat(33, 100), Rat(10, 100),  Num(10), Num(4)),
      Row(Num(3), Rat(66, 100), Rat(100, 100), Num(20), NaN),
      Row(NaN,    NaN,          Rat(200, 100), NaN,     Num(2)),
      Row(Str(2, 1), Junk,      NaN,           Num(10), Num(2)),
      Row(Junk,   Rat(70, 100), Str(1, 2),     Num(0),  Num(4)) }

Files == UNION {[1..n -> RowPool] : n \in 1..MaxRows}

ClassColumns == {"BlackHole_Mass_SolarMass", "Spin_Factor", "Eddington_Ratio"}

DataColumns == ClassColumns \cup {"Jet_Energy_erg", "Xray_Luminosity_erg_s"}

\* pd.to_numeric(col, errors="ignore"): the column with its text parsed when
\* every text cell parses, and the column as it is otherwise.
to_numeric(col) ==
    IF \E i \in 1..Len(col) : col[i].k = "junk" THEN col
    ELSE [i \in 1..Len(col) |-> IF col[i].k = "str" THEN Rat(col[i].n, col[i].d) ELSE col[i]]

\* pd.read_excel and the coercion loop over every column.
read_excel(file) ==
    [i \in 1..Len(file) |-> [c \in DataColumns |-> to_numeric(Column(file, c))[i]]]

-----------------------------------------------------------------------------
(* Classification.                                                         *)

SpinLow == 33

SpinHigh == 66

EddLow == 10

EddHigh == 100

MassQ1 == 33

MassQ2 == 66

\* A column that still holds text has dtype object; comparing its text with
\* a float raises TypeError.
Raises(col) == \E i \in 1..Len(col) : IsText(col[i])

\* The population whose quantiles bucket the masses.
MassPopulation == Column(df, "BlackHole_Mass_SolarMass")

\* Series.quantile([0.33, 0.66]) of a mass column.
Quantiles(col) == <<Quantile(col, MassQ1), Quantile(col, MassQ2)>>

MassThresholds == Quantiles(MassPopulation)

\* classify_mass with <= for <: a mass equal to a threshold in the lower bucket.
classify_mass_ties_low(v) ==
    LET q1 == MassThresholds[1]
        q2 == MassThresholds[2]
    IN  IF Le(v, q1) THEN "Low Mass" ELSE IF Le(v, q2) THEN "Medium Mass" ELSE "High Mass"

classify_mass(v) ==
    LET q1 == MassThresholds[1]
        q2 == MassThresholds[2]
    IN  IF Lt(v, q1) THEN "Low Mass" ELSE IF Lt(v, q2) THEN "Medium Mass" ELSE "High Mass"

\* classify_spin with <= for <.
classify_spin_inclusive(v) ==
    IF Le(v, Rat(SpinLow, 100)) THEN "Low Spin"
    ELSE IF Le(v, Rat(SpinHigh, 100)) THEN "Medium Spin" ELSE "High Spin"

classify_spin(v) ==
    IF Lt(v, Rat(SpinLow, 100)) THEN "Low Spin"
    ELSE IF Lt(v, Rat(SpinHigh, 100)) THEN "Medium Spin" ELSE "High Spin"

\* classify_edd with < for <= at the upper bound.
classify_edd_strict(e) ==
    IF Lt(e, Rat(EddLow, 100)) THEN "Sub-Eddington"
    ELSE IF Lt(e, Rat(EddHigh, 100)) THEN "Near-Eddington" ELSE "Super-Eddington"

classify_edd(e) ==
    IF Lt(e, Rat(EddLow, 100)) THEN "Sub-Eddington"
    ELSE IF Le(e, Rat(EddHigh, 100)) THEN "Near-Eddington" ELSE "Super-Eddington"

\* df[name] = df[c].apply(f): the frame with one more column.
WithColumn(frame, name, labels) ==
    [i \in 1..Len(frame) |-> frame[i] @@ (name :> labels[i])]

\* name in frame.columns, for a frame with rows (before the load df has none).
HasColumn(frame, name) == frame # <<>> /\ \A i \in 1..Len(frame) : name \in DOMAIN frame[i]

MassLabels == [i \in 1..Len(df) |-> classify_mass(df[i].BlackHole_Mass_SolarMass)]

SpinLabels == [i \in 1..Len(df) |-> classify_spin(df[i].Spin_Factor)]

EddLabels == [i \in 1..Len(df) |-> classify_edd(df[i].Eddington_Ratio)]

-----------------------------------------------------------------------------
(* Filtering and aggregation.                                              *)

\* The mask built with | for &.
SelectAny(frame, mass_sel, spin_sel, edd_sel) ==
    LET Mask(r) == \/ r.Mass_Class \in mass_sel
                   \/ r.Spin_Class \in spin_sel
                   \/ r.Eddington_Class \in edd_sel
    IN  SelectSeq(frame, Mask)

\* df[mask]: the rows whose three labels are each in the widget's value.
Select(frame, mass_sel, spin_sel, edd_sel) ==
    LET Mask(r) == /\ r.Mass_Class \in mass_sel
                   /\ r.Spin_Class \in spin_sel
                   /\ r.Eddington_Class \in edd_sel
    IN  SelectSeq(frame, Mask)

NoKpi == [count |-> "", mean_mass |-> "", mean_spin |-> "", mean_lum |-> ""]

Tiles(frame) ==
    [count |-> ToString(Len(frame)),
     mean_mass |-> FormatFixed(Mean(Column(frame, "BlackHole_Mass_SolarMass")), 2),
     mean_spin |-> FormatFixed(Mean(Column(frame, "Spin_Factor")), 3),
     mean_lum |-> FormatSci(Mean(Column(frame, "Xray_Luminosity_erg_s")))]

JetQ == 90

ScoreCap == 100

jet_mean == Mean(Column(filtered, "Jet_Energy_erg"))

\* Series.quantile(0.90) of a frame's jet energy.
JetReference(frame) == Quantile(Column(frame, "Jet_Energy_erg"), JetQ)

jet_90 == JetReference(df)

score == IF Truthy(jet_90) THEN PyMin(Num(ScoreCap), Mul(Div(jet_mean, jet_90), Num(100)))
         ELSE Num(0)

NoSnapshot == [taken |-> FALSE, df |-> <<>>, thresholds |-> <<NaN, NaN>>, jet_90 |-> NaN]

-----------------------------------------------------------------------------
(* The script, one action per block.                                       *)

Init ==
    /\ uploaded = NoFile
    /\ df = <<>>
    /\ rendered = FALSE
    /\ mass_f = {}
    /\ spin_f = {}
    /\ edd_f = {}
    /\ filtered = <<>>
    /\ kpi = NoKpi
    /\ pc = "start"
    /\ err = "None"
    /\ at_load = NoSnapshot

\* Lines 58-62: no file yet, st.info and st.stop.
UploadGate ==
    /\ pc = "start"
    /\ uploaded = NoFile
    /\ pc' = "stopped"
    /\ UNCHANGED <<uploaded, df, rendered, mass_f, spin_f, edd_f, filtered, kpi, err, at_load>>

\* The user picks a file in the uploader; Streamlit reruns the script.
Upload ==
    /\ pc = "stopped"
    /\ \E file \in Files : uploaded' = file
    /\ pc' = "start"
    /\ UNCHANGED <<df, rendered, mass_f, spin_f, edd_f, filtered, kpi, err, at_load>>

\* Lines 64-68: a fresh run reads the file and coerces its columns.
Load ==
    /\ pc = "start"
    /\ uploaded # NoFile
    /\ df' = read_excel(uploaded)
    /\ filtered' = <<>>
    /\ kpi' = NoKpi
    /\ pc' = "loaded"
    /\ UNCHANGED <<uploaded, rendered, mass_f, spin_f, edd_f, err, at_load>>

Snapshot(frame) ==
    [taken |-> TRUE, df |-> frame,
     thresholds |-> Quantiles(Column(frame, "BlackHole_Mass_SolarMass")),
     jet_90 |-> JetReference(frame)]

\* Lines 85-87: the three apply calls, in order; the first that raises ends
\* the run with the columns assigned so far.
Classify ==
    /\ pc = "loaded"
    /\ LET m == WithColumn(df, "Mass_Class", MassLabels)
           s == WithColumn(m, "Spin_Class", SpinLabels)
           e == WithColumn(s, "Eddington_Class", EddLabels)
       IN  IF Raises(Column(df, "BlackHole_Mass_SolarMass"))
           THEN df' = df /\ err' = "TypeError" /\ pc' = "error"
           ELSE IF Raises(Column(df, "Spin_Factor"))
           THEN df' = m /\ err' = "TypeError" /\ pc' = "error"
           ELSE IF Raises(Column(df, "Eddington_Ratio"))
           THEN df' = s /\ err' = "TypeError" /\ pc' = "error"
           ELSE df' = e /\ err' = "None" /\ pc' = "classified"
    /\ at_load' = IF pc' = "classified" /\ ~at_load.taken THEN Snapshot(df') ELSE at_load
    /\ UNCHANGED <<uploaded, rendered, mass_f, spin_f, edd_f, filtered, kpi>>

\* multiselect(label, options) without its default: nothing selected at first.
multiselect_no_default(value, default) == IF rendered THEN value ELSE {}

\* The value st.sidebar.multiselect(label, options, default) returns: the
\* default on the widget's first run, the session's value afterwards.
multiselect(value, default) == IF rendered THEN value ELSE default

\* The filter assigned back to df.
FilterInPlace ==
    /\ pc = "classified"
    /\ mass_f' = multiselect(mass_f, Unique(Column(df, "Mass_Class")))
    /\ spin_f' = multiselect(spin_f, Unique(Column(df, "Spin_Class")))
    /\ edd_f' = multiselect(edd_f, Unique(Column(df, "Eddington_Class")))
    /\ rendered' = TRUE
    /\ df' = Select(df, mass_f', spin_f', edd_f')
    /\ filtered' = df'
    /\ pc' = "filtered"
    /\ UNCHANGED <<uploaded, kpi, err, at_load>>

\* Lines 94-102: the three multiselects and the boolean-mask filter.
Filter ==
    /\ pc = "classified"
    /\ mass_f' = multiselect(mass_f, Unique(Column(df, "Mass_Class")))
    /\ spin_f' = multiselect(spin_f, Unique(Column(df, "Spin_Class")))
    /\ edd_f' = multiselect(edd_f, Unique(Column(df, "Eddington_Class")))
    /\ rendered' = TRUE
    /\ filtered' = Select(df, mass_f', spin_f', edd_f')
    /\ pc' = "filtered"
    /\ UNCHANGED <<uploaded, df, kpi, err, at_load>>

\* Lines 107-126: the four KPI tiles.
Kpi ==
    /\ pc = "filtered"
    /\ kpi' = Tiles(filtered)
    /\ pc' = "kpi"
    /\ UNCHANGED <<uploaded, df, rendered, mass_f, spin_f, edd_f, filtered, err, at_load>>

\* Lines 135-144: px.pie succeeds, then update_layout(paper_bgcolor=BG)
\* reads the unbound name BG.
Row1 ==
    /\ pc = "kpi"
    /\ err' = "NameError"
    /\ pc' = "error"
    /\ UNCHANGED <<uploaded, df, rendered, mass_f, spin_f, edd_f, filtered, kpi, at_load>>

\* The user changes one multiselect to another subset of its options;
\* Streamlit reruns the script.
ChangeSelection ==
    /\ pc = "error"
    /\ rendered
    /\ \/ \E S \in SUBSET Unique(Column(df, "Mass_Class")) :
            S # mass_f /\ mass_f' = S /\ UNCHANGED <<spin_f, edd_f>>
       \/ \E S \in SUBSET Unique(Column(df, "Spin_Class")) :
            S # spin_f /\ spin_f' = S /\ UNCHANGED <<mass_f, edd_f>>
       \/ \E S \in SUBSET Unique(Column(df, "Eddington_Class")) :
            S # edd_f /\ edd_f' = S /\ UNCHANGED <<mass_f, spin_f>>
    /\ pc' = "start"
    /\ err' = "None"
    /\ UNCHANGED <<uploaded, df, rendered, filtered, kpi, at_load>>

Next == UploadGate \/ Upload \/ Load \/ Classify \/ Filter \/ Kpi \/ Row1 \/ ChangeSelection

Spec == Init /\ [][Next]_vars

-----------------------------------------------------------------------------
(* States the properties speak about.                                      *)

Rows == 1..Len(df)

\* The run got past the filter: filtered is the subset of the current df
\* under the current selection.
FilterDone == pc \in {"filtered", "kpi"} \/ (pc = "error" /\ err = "NameError")

\* The KPI tiles of the current run are on the page.
KpiDone == pc = "kpi" \/ (pc = "error" /\ err = "NameError")

\* The three label columns are attached to df.
Labelled == HasColumn(df, "Eddington_Class")

Observed(name) == {df[i][name] : i \in Rows}

Selected(r) ==
    r.Mass_Class \in mass_f /\ r.Spin_Class \in spin_f /\ r.Eddington_Class \in edd_f

Rank(label) ==
    IF label = "Low Mass" THEN 1 ELSE IF label = "Medium Mass" THEN 2
    ELSE IF label = "High Mass" THEN 3 ELSE 0

-----------------------------------------------------------------------------
(* C1.  Classification never raises, and a record whose mass (spin factor, *)
(* Eddington ratio) is missing or non-numeric has the mass (spin,          *)
(* Eddington) class "Unknown", the labels of the other dimensions          *)
(* depending on their own field only.                                      *)
C1_MissingIsUnknown ==
    /\ err # "TypeError"
    /\ HasColumn(df, "Mass_Class") =>
         \A i \in Rows :
            ~IsNum(df[i].BlackHole_Mass_SolarMass) => df[i].Mass_Class = "Unknown"
    /\ HasColumn(df, "Spin_Class") =>
         \A i \in Rows :
            /\ ~IsNum(df[i].Spin_Factor) => df[i].Spin_Class = "Unknown"
            /\ \A j \in Rows : df[i].Spin_Factor = df[j].Spin_Factor
                                 => df[i].Spin_Class = df[j].Spin_Class
    /\ HasColumn(df, "Eddington_Class") =>
         \A i \in Rows :
            /\ ~IsNum(df[i].Eddington_Ratio) => df[i].Eddington_Class = "Unknown"
            /\ \A j \in Rows : df[i].Eddington_Ratio = df[j].Eddington_Ratio
                                 => df[i].Eddington_Class = df[j].Eddington_Class

(* C2.  The jet power index is 0 when the 90th percentile of jet energy    *)
(* over the full set is zero or undefined or the filtered subset has no    *)
(* jet-energy data, and min(100, 100 * subset mean / full-set 90th         *)
(* percentile) otherwise; it lies in [0, 100].                             *)
C2_JetPowerIndex ==
    FilterDone =>
        LET p90 == Quantile(Column(df, "Jet_Energy_erg"), 90)
            mean == Mean(Column(filtered, "Jet_Energy_erg"))
            ratio == Rat(100 * mean.n * p90.d, mean.d * p90.n)
        IN  /\ score = IF IsNaN(p90) \/ p90.n = 0 \/ IsNaN(mean) THEN Num(0)
                       ELSE IF Le(ratio, Num(100)) THEN ratio ELSE Num(100)
            /\ Le(Num(0), score) /\ Le(score, Num(100))

(* C3.  Aggregating a subset that is empty, or that has no value for a     *)
(* field, yields count 0 for the empty subset and the tagged result        *)
(* "NoData" for the mean of that field, never NaN shown as a mean.         *)
C3_EmptyMeansAreNoData ==
    KpiDone =>
        /\ filtered = <<>> => kpi.count = "0"
        /\ Valid(Column(filtered, "BlackHole_Mass_SolarMass")) = {} => kpi.mean_mass = "NoData"
        /\ Valid(Column(filtered, "Spin_Factor")) = {} => kpi.mean_spin = "NoData"
        /\ Valid(Column(filtered, "Xray_Luminosity_erg_s")) = {} => kpi.mean_lum = "NoData"

SpinBucket(s, low, high) ==
    IF s.n * 100 < low * s.d THEN "Low Spin"
    ELSE IF s.n * 100 < high * s.d THEN "Medium Spin" ELSE "High Spin"

(* C4 as stated.  The spin class of a non-missing spin s is "Low Spin" iff *)
(* s < 0.3, "Medium Spin" iff 0.3 <= s < 0.7, "High Spin" iff s >= 0.7.    *)
C4_SpinThresholds_030_070 ==
    HasColumn(df, "Spin_Class") =>
        \A i \in Rows : IsNum(df[i].Spin_Factor)
                          => df[i].Spin_Class = SpinBucket(df[i].Spin_Factor, 30, 70)

(* C4 amended.  The spin class of a non-missing spin s is "Low Spin" iff   *)
(* s < 0.33, "Medium Spin" iff 0.33 <= s < 0.66, "High Spin" iff s >= 0.66.*)
C4_SpinThresholds_033_066 ==
    HasColumn(df, "Spin_Class") =>
        \A i \in Rows : IsNum(df[i].Spin_Factor)
                          => df[i].Spin_Class = SpinBucket(df[i].Spin_Factor, 33, 66)

\* A classified frame with a spin of 0.30 (Low), of 0.33 (Medium) and of 0.66 (High).
C4_Witness ==
    /\ HasColumn(df, "Spin_Class")
    /\ \E i, j, l \in Rows :
          /\ df[i].Spin_Factor = Rat(30, 100) /\ df[i].Spin_Class = "Low Spin"
          /\ df[j].Spin_Factor = Rat(33, 100) /\ df[j].Spin_Class = "Medium Spin"
          /\ df[l].Spin_Factor = Rat(66, 100) /\ df[l].Spin_Class = "High Spin"

(* C5.  With q1, q2 the 33rd and 66th linear-interpolation percentiles of  *)
(* the non-missing masses of the full set, a non-missing mass m is "Low    *)
(* Mass" iff m < q1, "Medium Mass" iff q1 <= m < q2, "High Mass" iff       *)
(* m >= q2; and m1 < m2 never gives m1 a higher class than m2.             *)
C5_MassBuckets ==
    HasColumn(df, "Mass_Class") =>
        LET col == Column(df, "BlackHole_Mass_SolarMass")
            Below(m, q) == m.n * q.d < q.n * m.d
        IN  \A q1 \in {Quantile(col, 33)} : \A q2 \in {Quantile(col, 66)} :
              \A i \in Rows : IsNum(col[i]) =>
                /\ df[i].Mass_Class \in {"Low Mass", "Medium Mass", "High Mass"}
                /\ df[i].Mass_Class = "Low Mass" <=> Below(col[i], q1)
                /\ df[i].Mass_Class = "Medium Mass" <=> ~Below(col[i], q1) /\ Below(col[i], q2)
                /\ df[i].Mass_Class = "High Mass" <=> ~Below(col[i], q2)
                /\ \A j \in Rows : IsNum(col[j]) /\ Below(col[i], col[j])
                                     => Rank(df[i].Mass_Class) <= Rank(df[j].Mass_Class)

\* A classified frame with a mass equal to q1 that is "Medium Mass" and a
\* larger mass that is "High Mass".
C5_Witness ==
    /\ Labelled
    /\ \E i, j \in Rows :
          /\ df[i].BlackHole_Mass_SolarMass = MassThresholds[1]
          /\ df[i].Mass_Class = "Medium Mass"
          /\ Lt(df[i].BlackHole_Mass_SolarMass, df[j].BlackHole_Mass_SolarMass)
          /\ df[j].Mass_Class = "High Mass"

(* C6.  The Eddington class of a non-missing ratio e is "Sub-Eddington"    *)
(* iff e < 0.1, "Near-Eddington" iff 0.1 <= e <= 1.0 and "Super-Eddington" *)
(* iff e > 1.0.                                                            *)
C6_EddingtonBuckets ==
    HasColumn(df, "Eddington_Class") =>
        \A i \in Rows :
            LET e == df[i].Eddington_Ratio
            IN  IsNum(e) =>
                  /\ df[i].Eddington_Class = "Sub-Eddington" <=> 10 * e.n < e.d
                  /\ df[i].Eddington_Class = "Near-Eddington" <=> 10 * e.n >= e.d /\ e.n <= e.d
                  /\ df[i].Eddington_Class = "Super-Eddington" <=> e.n > e.d

\* A classified frame with the ratios 0.1 and 1.0, both "Near-Eddington".
C6_Witness ==
    /\ HasColumn(df, "Eddington_Class")
    /\ \E i, j \in Rows :
          /\ df[i].Eddington_Ratio = Rat(10, 100) /\ df[i].Eddington_Class = "Near-Eddington"
          /\ df[j].Eddington_Ratio = Rat(100, 100) /\ df[j].Eddington_Class = "Near-Eddington"

(* C7.  The filtered subset holds exactly the records whose mass class,    *)
(* spin class and Eddington class are each in the selection, in the order  *)
(* of the full set; an empty selection on one dimension gives the empty    *)
(* subset.                                                                 *)
C7_FilterIsConjunction ==
    FilterDone =>
        LET keep == {i \in Rows : Selected(df[i])}
        IN  /\ Len(filtered) = Cardinality(keep)
            /\ \A i \in keep :
                  filtered[Cardinality({j \in keep : j <= i})] = df[i]
            /\ (mass_f = {} \/ spin_f = {} \/ edd_f = {}) => filtered = <<>>

\* A selection that keeps one record and drops another whose mass class is
\* selected but whose spin class is not.
C7_Witness ==
    /\ FilterDone
    /\ \E i, j \in Rows :
          /\ Selected(df[i])
          /\ df[j].Mass_Class \in mass_f /\ df[j].Spin_Class \notin spin_f
    /\ Len(filtered) < Len(df)
    /\ filtered # <<>>

\* The labels that occur in the classified full set.
Occurring(name) == {at_load.df[i][name] : i \in 1..Len(at_load.df)}

(* C8.  On the first run over a dataset the selection is, per dimension,   *)
(* exactly the set of labels that occur in the classified full set, and    *)
(* the filter then returns every record of the full set, unchanged; no     *)
(* selection ever holds a label that does not occur in the full set.       *)
C8_DefaultSelection ==
    /\ [](rendered => /\ mass_f \subseteq Occurring("Mass_Class")
                      /\ spin_f \subseteq Occurring("Spin_Class")
                      /\ edd_f \subseteq Occurring("Eddington_Class"))
    /\ [][(pc = "classified" /\ ~rendered) =>
             /\ mass_f' = Observed("Mass_Class")
             /\ spin_f' = Observed("Spin_Class")
             /\ edd_f' = Observed("Eddington_Class")
             /\ filtered' = df
             /\ df' = df]_vars

\* The first run got past the filter on a frame of three records in which
\* the label "Low Mass" does not occur.
C8_Witness ==
    /\ pc = "filtered"
    /\ Len(df) = 3
    /\ mass_f = Observed("Mass_Class")
    /\ "Low Mass" \notin mass_f
    /\ filtered = df

(* C9.  Whatever selections were made since the dataset was classified for *)
(* the first time, the full set with its labels, the mass thresholds and   *)
(* the 90th-percentile jet energy are what they were then.                 *)
C9_FullSetIsFixed ==
    Labelled =>
        /\ at_load.taken
        /\ df = at_load.df
        /\ MassThresholds = at_load.thresholds
        /\ jet_90 = at_load.jet_90

\* A later run, under a changed selection that drops a record.
C9_Witness ==
    /\ KpiDone
    /\ mass_f # Observed("Mass_Class")
    /\ filtered # <<>>
    /\ Len(filtered) < Len(df)
    /\ IsNum(MassThresholds[1])
    /\ IsNum(jet_90)

(* C10.  No run that computes under a filter selection ends in an          *)
(* unhandled error, and without an uploaded file the run stops before      *)
(* anything is loaded, classified or filtered.                             *)
C10_PassCompletes ==
    /\ rendered => err = "None"
    /\ uploaded = NoFile => pc \in {"start", "stopped"} /\ df = <<>> /\ filtered = <<>>

====
